---- MODULE Spec2Model ----
(***************************************************************************)
(* Model of hpcflow's scheduler backends (src/hpcflow/scheduler.py), the   *)
(* orchestration API (src/hpcflow/api.py) and the database session         *)
(* factory (src/hpcflow/init_db.py).                                       *)
(*                                                                         *)
(* A script line is a record [kind, s, v, a, b]: `kind` is the role of the *)
(* line, `s`/`v` its string parts and `a`/`b` its integer parts, so that   *)
(* the text a Python format() call would produce is kept field by field.   *)
(***************************************************************************)
EXTENDS Integers, Sequences, FiniteSets, TLC

VARIABLES
    sched,      \* the Scheduler object under construction / constructed
    cgs,        \* the command-group submission handing its values to the backend
    files,      \* generated script files: [js |-> lines, st |-> lines]
    ret,        \* what the last scheduler call returned
    script,     \* the script an array element runs
    proc,       \* the running array element (shell process)
    store,      \* task-lifecycle table, by (cg-submission id, task, iteration)
    clock,      \* wall clock used for timestamps
    last,       \* outcome of the last lifecycle call
    tasks,      \* concurrently running array elements' callback positions
    qacct,      \* accounting output (lines) and the requested task id
    info,       \* result of get_scheduler_stats
    db,         \* the persistent store location: [exists, schema, rows]
    call        \* outcome of the last API call

vars == <<sched, cgs, files, ret, script, proc, store, clock, last, tasks, qacct, info, db, call>>

schedVars == <<sched, cgs, files, ret>>
runVars == <<script, proc>>
lifeVars == <<store, clock, last, tasks>>
statsVars == <<qacct, info>>
apiVars == <<db, call>>

----------------------------------------------------------------------------
(* Bounds of the model *)

MaxTasks == 2
MaxStep == 2
MaxOpts == 2
MaxId == 5
MaxClock == 5
MaxWorkflows == 2
MaxLines == 5

----------------------------------------------------------------------------
(* Python values *)

NoneVal == [isNone |-> TRUE, items |-> <<>>]
Dict(items) == [isNone |-> FALSE, items |-> items]

Range(seq) == {seq[i] : i \in DOMAIN seq}

Keys(d) == [i \in DOMAIN d.items |-> d.items[i][1]]

\* Python's ordering of the option keys that occur (str comparison, ASCII:
\* upper case before lower case).
StrOrder == <<"P", "l", "pe", "q", "tc">>
StrRank(k) == CHOOSE i \in DOMAIN StrOrder : StrOrder[i] = k

RECURSIVE sorted(_)
sorted(items) ==
    IF items = <<>> THEN <<>>
    ELSE LET m == CHOOSE i \in DOMAIN items :
                    \A j \in DOMAIN items : StrRank(items[i][1]) <= StrRank(items[j][1])
             rest == [j \in 1..(Len(items) - 1) |-> IF j < m THEN items[j] ELSE items[j + 1]]
         IN <<items[m]>> \o sorted(rest)

----------------------------------------------------------------------------
(* Script lines (a shell backquote substitution is written $(...)) *)

Line(kind, s, v, a, b) == [kind |-> kind, s |-> s, v |-> v, a |-> a, b |-> b]
Blank == Line("blank", "", "", 0, 0)

\* CONFIG.get(...) values
CONFIG == [default_output_dir |-> "output", default_error_dir |-> "output",
           config_dir |-> "~/.hpcflow", jobscript_ext |-> ".sh"]

----------------------------------------------------------------------------
(* class Scheduler / SunGridEngine / DirectExecution: construction *)

SHEBANG == "#!/bin/bash --login"
SGE_NAME == "sge"
STDOUT_OPT == "o"
STDERR_OPT == "e"
REQ_OPT == <<"cwd">>
REQ_PARAMETRISED_OPT == <<>>
ALLOWED_USER_OPTS == <<"pe", "l", "tc", "P">>

\* `given` is the options argument of the constructor call (its call frame);
\* `raised`, `errKey`, `errAllowed` are the exception it ended with, if any.
NoSched == [cls |-> "none", options |-> NoneVal, output_dir |-> "", error_dir |-> "",
            given |-> NoneVal, raised |-> "none", errKey |-> "", errAllowed |-> <<>>]

\* Scheduler.__init__: `x or CONFIG.get(...)`: an empty/None directory is falsy.
Scheduler_init(cls, options, output_dir, error_dir) ==
    [NoSched EXCEPT !.cls = cls, !.options = options,
        !.output_dir = IF output_dir = "" THEN CONFIG.default_output_dir ELSE output_dir,
        !.error_dir = IF error_dir = "" THEN CONFIG.default_error_dir ELSE error_dir]

\* Mutant: only the first option key is validated.
SGE_init_first_only(options, output_dir, error_dir) ==
    IF options.isNone THEN [NoSched EXCEPT !.raised = "TypeError"]
    ELSE IF Len(options.items) > 0 /\ options.items[1][1] \notin Range(ALLOWED_USER_OPTS)
         THEN [NoSched EXCEPT !.raised = "ValueError", !.errKey = options.items[1][1],
                              !.errAllowed = ALLOWED_USER_OPTS]
         ELSE Scheduler_init("sge", options, output_dir, error_dir)

\* SunGridEngine.__init__: iterating None raises TypeError; the first key (in
\* the mapping's iteration order) outside the allow-list raises ValueError.
SGE_init(options, output_dir, error_dir) ==
    IF options.isNone THEN [NoSched EXCEPT !.raised = "TypeError"]
    ELSE LET keys == Keys(options)
             bad == {i \in DOMAIN keys : keys[i] \notin Range(ALLOWED_USER_OPTS)}
         IN IF bad # {}
            THEN LET i == CHOOSE i \in bad : \A j \in bad : i <= j
                 IN [NoSched EXCEPT !.raised = "ValueError", !.errKey = keys[i],
                                    !.errAllowed = ALLOWED_USER_OPTS]
            ELSE Scheduler_init("sge", options, output_dir, error_dir)

Direct_init(options, output_dir, error_dir) ==
    Scheduler_init("direct", options, output_dir, error_dir)

----------------------------------------------------------------------------
(* SunGridEngine.get_formatted_options *)

ArrayLo == 1

Directive(s, v) == Line("directive", s, v, 0, 0)

\* '#$ -t 1-{}:{}'.format(max_num_tasks, task_step_size)
ArrayDirective(max_num_tasks, task_step_size) ==
    Line("directive", "t", "", max_num_tasks, task_step_size)

\* Result of a call: [raised, val]
Ok(val) == [raised |-> "none", val |-> val]
Raise(exc) == [raised |-> exc, val |-> <<>>]

\* Mutant: the user options are emitted in the mapping's iteration order.
get_formatted_options_unsorted(self, max_num_tasks, task_step_size, user_opt, name) ==
    LET req == [i \in DOMAIN REQ_OPT |-> Directive(REQ_OPT[i], "")]
        out == <<Directive(STDOUT_OPT, self.output_dir), Directive(STDERR_OPT, self.error_dir)>>
        par == [i \in DOMAIN REQ_PARAMETRISED_OPT |->
                   Directive(REQ_PARAMETRISED_OPT[i][1], REQ_PARAMETRISED_OPT[i][2])]
        nm == IF name # "" THEN <<Directive("N", name)>> ELSE <<>>
        tail == <<Blank, ArrayDirective(max_num_tasks, task_step_size)>>
    IN IF user_opt /\ self.options.isNone THEN Raise("AttributeError")
       ELSE LET srt == IF user_opt THEN self.options.items ELSE <<>>
                usr == [i \in DOMAIN srt |-> Directive(srt[i][1], srt[i][2])]
            IN Ok(req \o out \o par \o nm \o usr \o tail)

get_formatted_options(self, max_num_tasks, task_step_size, user_opt, name) ==
    LET req == [i \in DOMAIN REQ_OPT |-> Directive(REQ_OPT[i], "")]
        out == <<Directive(STDOUT_OPT, self.output_dir), Directive(STDERR_OPT, self.error_dir)>>
        par == [i \in DOMAIN REQ_PARAMETRISED_OPT |->
                   Directive(REQ_PARAMETRISED_OPT[i][1], REQ_PARAMETRISED_OPT[i][2])]
        nm == IF name # "" THEN <<Directive("N", name)>> ELSE <<>>
        tail == <<Blank, ArrayDirective(max_num_tasks, task_step_size)>>
    IN IF user_opt /\ self.options.isNone THEN Raise("AttributeError")
       ELSE LET srt == IF user_opt THEN sorted(self.options.items) ELSE <<>>
                usr == [i \in DOMAIN srt |-> Directive(srt[i][1], srt[i][2])]
            IN Ok(req \o out \o par \o nm \o usr \o tail)

----------------------------------------------------------------------------
(* write_jobscript: pieces that are the same text in both backends *)

Define(name, v) == Line("define", name, v, 0, 0)
Printf(name) == Line("printf", name, ">> $LOG_PATH 2>&1", 0, 0)

\* 'TASK_IDX=$((($SGE_TASK_ID - 1)/{}))'.format(task_step_size)
DefineTaskIdx(task_step_size) ==
    Line("define", "TASK_IDX", "(($SGE_TASK_ID - 1)/{})", 0, task_step_size)

\* python truthiness of alternate_scratch_dir ('' and None are falsy)
Truthy(str) == str # ""

define_dirs_B(command_group_order, alternate_scratch_dir) ==
    <<Line("define", "INPUTS_DIR_REL", "$(sed -n ${SGE_TASK_ID}p ${ITER_DIR}/working_dirs_{})",
           command_group_order, 0),
      Define("INPUTS_DIR", "$ROOT_DIR/$INPUTS_DIR_REL")>>
    \o (IF Truthy(alternate_scratch_dir)
        THEN <<Line("define", "ALT_SCRATCH_EXC", "$ITER_DIR/{}_{}_$TASK_IDX{}", command_group_order, 0),
               Define("INPUTS_DIR_SCRATCH", alternate_scratch_dir)>>
        ELSE <<Define("INPUTS_DIR_SCRATCH", "$INPUTS_DIR")>>)

copy_to_alt(alternate_scratch_dir) ==
    IF Truthy(alternate_scratch_dir)
    THEN <<Line("rsync-to-scratch", "--exclude-from=${ALT_SCRATCH_EXC} $INPUTS_DIR/ $INPUTS_DIR_SCRATCH",
                ">> $LOG_PATH 2>&1", 0, 0), Blank>>
    ELSE <<>>

move_from_alt(alternate_scratch_dir) ==
    IF Truthy(alternate_scratch_dir)
    THEN <<Blank,
           Line("rsync-from-scratch", "$INPUTS_DIR_SCRATCH/ $INPUTS_DIR --remove-source-files",
                ">> $LOG_PATH 2>&1", 0, 0),
           Blank>>
    ELSE <<>>

log_stuff(alternate_scratch_dir) ==
    <<Printf("Jobscript variables:"), Printf("ITER_IDX"), Printf("ROOT_DIR"), Printf("SUBMIT_DIR"),
      Printf("ITER_DIR"), Printf("LOG_PATH"), Printf("SGE_TASK_ID"), Printf("TASK_IDX"),
      Printf("INPUTS_DIR_REL"), Printf("INPUTS_DIR"), Printf("INPUTS_DIR_SCRATCH")>>
    \o (IF Truthy(alternate_scratch_dir) THEN <<Printf("ALT_SCRATCH_EXC")>> ELSE <<>>)
    \o <<Printf("")>>

\* `if environment:` an empty list is falsy
loads(environment) ==
    IF environment # <<>>
    THEN <<Blank>> \o [i \in DOMAIN environment |-> Line("env", environment[i], "", 0, 0)] \o <<Blank>>
    ELSE <<>>

about_msg == <<Line("about", "# --- jobscript generated by hpcflow", "", 0, 0)>>

\* A callback line: `hpcflow <kind> <s> <a> $TASK_IDX $ITER_IDX <v>`
Callback(kind, locArgs, id, redirect) == Line(kind, locArgs, redirect, id, 0)

----------------------------------------------------------------------------
(* SunGridEngine.write_jobscript / write_stats_jobscript *)

SGE_LOC_ARGS == "--directory $ROOT_DIR --config-dir ~/.hpcflow"
D_LOC_ARGS == "-d $ROOT_DIR"

\* Mutant: the task index is divided by max_num_tasks instead of the step.
SGE_define_dirs_A_wrong_divisor(c) ==
    <<Define("ROOT_DIR", "$(pwd)"), Define("SUBMIT_DIR", "$ROOT_DIR/{}"),
      Define("ITER_DIR", "$SUBMIT_DIR/iter_$ITER_IDX"),
      Line("define", "LOG_PATH", "$ITER_DIR/log_{}.$SGE_TASK_ID", c.order, 0),
      DefineTaskIdx(c.max_num_tasks)>>

SGE_define_dirs_A(c) ==
    <<Define("ROOT_DIR", "$(pwd)"), Define("SUBMIT_DIR", "$ROOT_DIR/{}"),
      Define("ITER_DIR", "$SUBMIT_DIR/iter_$ITER_IDX"),
      Line("define", "LOG_PATH", "$ITER_DIR/log_{}.$SGE_TASK_ID", c.order, 0),
      DefineTaskIdx(c.task_step_size)>>

SGE_cmd_exec(c) ==
    <<Callback("set-task-start", SGE_LOC_ARGS, c.id, ">> $LOG_PATH 2>&1"),
      Blank,
      Line("cd", "$INPUTS_DIR_SCRATCH", "", 0, 0),
      Line("source", "$SUBMIT_DIR/cmd_{}", "", c.order, 0),
      Blank,
      Callback("set-task-end", SGE_LOC_ARGS, c.id, ">> $LOG_PATH 2>&1")>>

SGE_arch_lns(c) ==
    IF c.archive
    THEN <<Callback("archive", SGE_LOC_ARGS, c.id, ">> $LOG_PATH 2>&1"), Blank>>
    ELSE <<>>

\* Mutant: the staging-back step and the archive callback are emitted before
\* the task is executed.
SGE_write_jobscript_misordered(self, c) ==
    LET fo == get_formatted_options(self, c.max_num_tasks, c.task_step_size, TRUE, c.name)
    IN IF fo.raised # "none" THEN fo
       ELSE Ok(<<Line("shebang", SHEBANG, "", 0, 0), Blank>> \o about_msg \o <<Blank>>
               \o fo.val \o <<Blank>>
               \o SGE_define_dirs_A(c) \o <<Blank>>
               \o <<Callback("write-runtime-files", SGE_LOC_ARGS, c.id, "> $LOG_PATH 2>&1")>> \o <<Blank>>
               \o define_dirs_B(c.order, c.alternate_scratch_dir) \o <<Blank>>
               \o log_stuff(c.alternate_scratch_dir) \o <<Blank>>
               \o loads(c.environment) \o <<Blank>>
               \o copy_to_alt(c.alternate_scratch_dir)
               \o move_from_alt(c.alternate_scratch_dir)
               \o SGE_arch_lns(c)
               \o SGE_cmd_exec(c))

SGE_write_jobscript(self, c) ==
    LET fo == get_formatted_options(self, c.max_num_tasks, c.task_step_size, TRUE, c.name)
    IN IF fo.raised # "none" THEN fo
       ELSE Ok(<<Line("shebang", SHEBANG, "", 0, 0), Blank>> \o about_msg \o <<Blank>>
               \o fo.val \o <<Blank>>
               \o SGE_define_dirs_A(c) \o <<Blank>>
               \o <<Callback("write-runtime-files", SGE_LOC_ARGS, c.id, "> $LOG_PATH 2>&1")>> \o <<Blank>>
               \o define_dirs_B(c.order, c.alternate_scratch_dir) \o <<Blank>>
               \o log_stuff(c.alternate_scratch_dir) \o <<Blank>>
               \o loads(c.environment) \o <<Blank>>
               \o copy_to_alt(c.alternate_scratch_dir)
               \o SGE_cmd_exec(c)
               \o move_from_alt(c.alternate_scratch_dir)
               \o SGE_arch_lns(c))

stats_log_stuff ==
    <<Printf("Jobscript variables:"), Printf("ITER_IDX"), Printf("ROOT_DIR"), Printf("SUBMIT_DIR"),
      Printf("ITER_DIR"), Printf("LOG_PATH"), Printf("SGE_TASK_ID"), Printf("TASK_IDX")>>

stats_cmd_exec(c) == <<Callback("get-scheduler-stats", D_LOC_ARGS, c.id, ">> $LOG_PATH 2>&1")>>

SGE_write_stats_jobscript(self, c) ==
    LET fo == get_formatted_options(self, c.max_num_tasks, c.task_step_size, FALSE, "")
    IN IF fo.raised # "none" THEN fo
       ELSE Ok(<<Line("shebang", SHEBANG, "", 0, 0), Blank>> \o about_msg \o <<Blank>>
               \o fo.val \o <<Directive("l", "short")>> \o <<Blank>>
               \o SGE_define_dirs_A(c) \o <<Blank>>
               \o stats_log_stuff \o <<Blank>>
               \o stats_cmd_exec(c))

----------------------------------------------------------------------------
(* DirectExecution.write_jobscript / write_stats_jobscript *)

Direct_define_dirs_A(c) ==
    <<Line("define", "SGE_TASK_ID", "", 1, 0),
      Define("ROOT_DIR", "$(pwd)"), Define("SUBMIT_DIR", "$ROOT_DIR/{}"),
      Define("ITER_DIR", "$SUBMIT_DIR/iter_$ITER_IDX"),
      Line("define", "LOG_PATH", "$ITER_DIR/log_{}.$SGE_TASK_ID", c.order, 0),
      DefineTaskIdx(c.task_step_size)>>

Direct_cmd_exec(c) ==
    <<Callback("set-task-start", D_LOC_ARGS, c.id, ">> $LOG_PATH 2>&1"),
      Blank,
      Line("cd", "$INPUTS_DIR_SCRATCH", "", 0, 0),
      Line("source", "$SUBMIT_DIR/cmd_{}", "", c.order, 0),
      Blank,
      Callback("set-task-end", D_LOC_ARGS, c.id, ">> $LOG_PATH 2>&1")>>

Direct_arch_lns(c) ==
    IF c.archive
    THEN <<Callback("archive", D_LOC_ARGS, c.id, ">> $LOG_PATH 2>&1"), Blank>>
    ELSE <<>>

Direct_write_jobscript(self, c) ==
    Ok(<<Line("shebang", SHEBANG, "", 0, 0), Blank>> \o about_msg \o <<Blank>>
       \o Direct_define_dirs_A(c) \o <<Blank>>
       \o <<Callback("write-runtime-files", D_LOC_ARGS, c.id, "> $LOG_PATH 2>&1")>> \o <<Blank>>
       \o define_dirs_B(c.order, c.alternate_scratch_dir) \o <<Blank>>
       \o log_stuff(c.alternate_scratch_dir) \o <<Blank>>
       \o loads(c.environment) \o <<Blank>>
       \o copy_to_alt(c.alternate_scratch_dir)
       \o Direct_cmd_exec(c)
       \o move_from_alt(c.alternate_scratch_dir)
       \o Direct_arch_lns(c))

Direct_write_stats_jobscript(self, c) ==
    Ok(<<Line("shebang", SHEBANG, "", 0, 0), Blank>> \o about_msg \o <<Blank>>
       \o Direct_define_dirs_A(c) \o <<Blank>>
       \o stats_log_stuff \o <<Blank>>
       \o stats_cmd_exec(c))

\* Dispatch on the class of the backend object
write_jobscript(self, c) ==
    IF self.cls = "sge" THEN SGE_write_jobscript(self, c) ELSE Direct_write_jobscript(self, c)

write_stats_jobscript(self, c) ==
    IF self.cls = "sge" THEN SGE_write_stats_jobscript(self, c)
    ELSE Direct_write_stats_jobscript(self, c)

----------------------------------------------------------------------------
(* The array scheduler's reading of `-t lo-hi:step`, and the shell's        *)
(* arithmetic in the TASK_IDX definition                                    *)

\* Native ids the scheduler launches for the directive `-t 1-a:b`
ArrayIds(d) == {id \in ArrayLo..d.a : (id - ArrayLo) % d.b = 0}

\* Shell integer division truncates towards zero.
ShellDiv(x, y) == IF x >= 0 THEN x \div y ELSE -((-x) \div y)

\* Mutant: the native id is used without the shift to a 0-based index.
EvalTaskIdx_noshift(ln, sge_task_id) == ShellDiv(sge_task_id, ln.b)

\* The value a line TASK_IDX=$((($SGE_TASK_ID - 1)/b)) gives TASK_IDX
EvalTaskIdx(ln, sge_task_id) == ShellDiv(sge_task_id - 1, ln.b)

----------------------------------------------------------------------------
(* Inputs *)

OptVal(k) == IF k = "pe" THEN "smp 4" ELSE IF k = "l" THEN "h_rt=1" ELSE IF k = "tc" THEN "2"
             ELSE IF k = "P" THEN "proj" ELSE ""

OptKeys == {"pe", "l", "tc", "P", "q"}

RECURSIVE KeySeqs(_)
KeySeqs(n) ==
    IF n = 0 THEN {<<>>}
    ELSE LET shorter == KeySeqs(n - 1)
         IN shorter \cup {Append(s, k) : s \in {x \in shorter : Len(x) = n - 1},
                                         k \in OptKeys} 

NoDup(s) == \A i, j \in DOMAIN s : i # j => s[i] # s[j]

\* Mappings of at most MaxOpts options, in every insertion order
OptionDicts == {Dict([i \in DOMAIN s |-> <<s[i], OptVal(s[i])>>]) : s \in {x \in KeySeqs(MaxOpts) : NoDup(x)}}

CGS(maxes, steps, envs, archives, scratches, names) ==
    [order : {0}, max_num_tasks : maxes, task_step_size : steps, environment : envs,
     archive : archives, alternate_scratch_dir : scratches, id : {1}, name : names]

NoRet == [op |-> "none", raised |-> "none", val |-> <<>>]

NoFiles == [js |-> <<>>, st |-> <<>>]

----------------------------------------------------------------------------
(* Scheduler calls: construction, get_formatted_options, write_jobscript,   *)
(* write_stats_jobscript                                                    *)

IdleSched == sched = NoSched /\ cgs = <<>> /\ files = NoFiles /\ ret = NoRet
NoProc == [pc |-> 0, SGE_TASK_ID |-> 0, TASK_IDX |-> 0, failed |-> {}]
IdleRun == script = <<>> /\ proc = NoProc
\* A lifecycle row; a timestamp of 0 is "not set" (the clock starts at 1)
NoRow == [exists |-> FALSE, start |-> 0, end |-> 0, archived |-> FALSE]
LifeKeys == {1} \X (0..(MaxTasks - 1)) \X {0}
NoLast == [op |-> "none", key |-> <<0, 0, 0>>, raised |-> "none"]
NoTask == [pc |-> 0, err |-> FALSE, start |-> 0, end |-> 0, archived |-> FALSE]
IdleLife == store = [k \in LifeKeys |-> NoRow] /\ clock = 1 /\ last = NoLast /\ tasks = <<>>
NoInfo == [called |-> FALSE, raised |-> "none", val |-> {}]
IdleStats == qacct = [out |-> <<>>, task_id |-> 0] /\ info = NoInfo
NoDb == [exists |-> FALSE, schema |-> FALSE, workflows |-> {}, cg_subs |-> {}]
NoCall == [op |-> "none", existed |-> FALSE, raised |-> "none", val |-> {}]
IdleApi == db = NoDb /\ call = NoCall

Construct(cls, options, output_dir, error_dir) ==
    /\ sched.cls = "none" /\ sched.raised = "none"
    /\ sched' = [(IF cls = "sge" THEN SGE_init(options, output_dir, error_dir)
                  ELSE Direct_init(options, output_dir, error_dir)) EXCEPT !.given = options]
    /\ ret' = [op |-> cls, raised |-> sched'.raised, val |-> <<>>]
    /\ UNCHANGED <<cgs, files>>
    /\ UNCHANGED <<runVars, lifeVars, statsVars, apiVars>>

FormatOptions(user_opt, name) ==
    /\ sched.cls = "sge"
    /\ LET r == get_formatted_options(sched, cgs.max_num_tasks, cgs.task_step_size, user_opt, name)
       IN ret' = [op |-> "get_formatted_options", raised |-> r.raised, val |-> r.val,
                  user_opt |-> user_opt, name |-> name]
    /\ UNCHANGED <<sched, cgs, files>>
    /\ UNCHANGED <<runVars, lifeVars, statsVars, apiVars>>

\* `with js_path.open('w') as handle: handle.write(...)` is reached only when
\* no exception was raised while the lines were assembled.
WriteJobscript ==
    /\ sched.cls \in {"sge", "direct"}
    /\ LET r == write_jobscript(sched, cgs)
       IN /\ ret' = [op |-> "write_jobscript", raised |-> r.raised, val |-> <<>>]
          /\ files' = IF r.raised = "none" THEN [files EXCEPT !.js = r.val] ELSE files
    /\ UNCHANGED <<sched, cgs>>
    /\ UNCHANGED <<runVars, lifeVars, statsVars, apiVars>>

WriteStatsJobscript ==
    /\ sched.cls \in {"sge", "direct"}
    /\ LET r == write_stats_jobscript(sched, cgs)
       IN /\ ret' = [op |-> "write_stats_jobscript", raised |-> r.raised, val |-> <<>>]
          /\ files' = IF r.raised = "none" THEN [files EXCEPT !.st = r.val] ELSE files
    /\ UNCHANGED <<sched, cgs>>
    /\ UNCHANGED <<runVars, lifeVars, statsVars, apiVars>>

\* Option handling: every mapping of options, a plain command group
InitOpts ==
    /\ sched = NoSched /\ files = NoFiles /\ ret = NoRet
    /\ cgs \in CGS(1..MaxTasks, 1..MaxStep, {<<>>}, {FALSE}, {""}, {"job"})
    /\ IdleRun /\ IdleLife /\ IdleStats /\ IdleApi

NextOpts ==
    \/ \E cls \in {"sge", "direct"}, o \in OptionDicts \cup {NoneVal}, od \in {"", "logs"} :
           Construct(cls, o, od, "")
    \/ \E u \in BOOLEAN, n \in {"", "job"} : FormatOptions(u, n)
    \/ WriteJobscript
    \/ WriteStatsJobscript

SpecOpts == InitOpts /\ [][NextOpts]_vars

\* Script generation: every command group, a few option mappings
InitGen ==
    /\ sched = NoSched /\ files = NoFiles /\ ret = NoRet
    /\ cgs \in CGS(1..MaxTasks, 1..MaxStep, {<<>>, <<"module load x">>}, BOOLEAN,
                   {"", "/scratch"}, {"", "job"})
    /\ IdleRun /\ IdleLife /\ IdleStats /\ IdleApi

NextGen ==
    \/ \E cls \in {"sge", "direct"}, o \in {Dict(<<>>), Dict(<<<<"pe", "smp 4">>>>)} :
           Construct(cls, o, "", "")
    \/ WriteJobscript
    \/ WriteStatsJobscript

SpecGen == InitGen /\ [][NextGen]_vars

----------------------------------------------------------------------------
(* Claims about option handling and script generation *)

LastLine(lines) == lines[Len(lines)]

\* C1: for every max_num_tasks >= 1 and task_step_size >= 1 the array-range
\* directive emitted by get_formatted_options covers native ids
\* 1 .. max_num_tasks*task_step_size stepped by task_step_size, so exactly
\* max_num_tasks elements are launched and their task indices are exactly
\* 0 .. max_num_tasks-1.
C1_ArrayRangeCoversAllTasks ==
    (ret.op = "get_formatted_options" /\ ret.raised = "none") =>
        LET d == LastLine(ret.val)
            n == cgs.max_num_tasks
            s == cgs.task_step_size
            ids == ArrayIds(d)
        IN /\ d.kind = "directive" /\ d.s = "t"
           /\ ids = {ArrayLo + k * s : k \in 0..(n - 1)}
           /\ Cardinality(ids) = n
           /\ {EvalTaskIdx(DefineTaskIdx(s), id) : id \in ids} = 0..(n - 1)

Positions(lines, kind) == {i \in DOMAIN lines : lines[i].kind = kind}

\* The steps of one task, in the order the claim gives them
TaskSteps == <<"write-runtime-files", "rsync-to-scratch", "set-task-start", "cd", "source",
               "set-task-end", "rsync-from-scratch", "archive">>

\* C3: in every job script written by write_jobscript (either backend, any
\* environment / scratch / archive setting) the steps of a task occur in the
\* order materialize, [pre-stage sync], task-start, cd, command file,
\* task-end, [post-stage sync], [archive], each at most once; the sync steps
\* are present exactly when scratch is configured and the archive callback
\* exactly when archive is true.
C3_StepOrder ==
    files.js # <<>> =>
        LET js == files.js
            scratch == Truthy(cgs.alternate_scratch_dir)
            want(k) == IF k \in {"rsync-to-scratch", "rsync-from-scratch"} THEN scratch
                       ELSE IF k = "archive" THEN cgs.archive ELSE TRUE
        IN /\ \A i \in DOMAIN TaskSteps :
                Cardinality(Positions(js, TaskSteps[i])) = (IF want(TaskSteps[i]) THEN 1 ELSE 0)
           /\ \A i, j \in DOMAIN TaskSteps : i < j =>
                \A p \in Positions(js, TaskSteps[i]), q \in Positions(js, TaskSteps[j]) : p < q

C3_Witness ==
    /\ files.js # <<>> /\ sched.cls = "sge"
    /\ cgs.archive /\ Truthy(cgs.alternate_scratch_dir) /\ cgs.environment # <<>>
    /\ Positions(files.js, "archive") # {} /\ Positions(files.js, "rsync-from-scratch") # {}

OffendingKeys(options) == {k \in Range(Keys(options)) : k \notin Range(ALLOWED_USER_OPTS)}

\* C5: constructing the array-scheduler backend with a mapping holding a key
\* outside the allow-list {pe, l, tc, P} fails with a validation error naming
\* an offending key and the allow-list, wherever the key stands among the
\* options; no backend object results and no script file is written.  A
\* mapping whose keys are all allowed never raises this error.
C5_OptionValidation ==
    (ret.op # "none" /\ sched.given.isNone = FALSE /\ (sched.cls = "sge" \/ sched.raised # "none")) =>
        IF OffendingKeys(sched.given) # {}
        THEN /\ sched.raised = "ValueError"
             /\ sched.errKey \in OffendingKeys(sched.given)
             /\ Range(sched.errAllowed) = {"pe", "l", "tc", "P"}
             /\ sched.cls = "none"
             /\ files = NoFiles
        ELSE sched.raised = "none" /\ sched.cls = "sge"

C5_Witness ==
    /\ sched.raised = "ValueError" /\ sched.errKey = "q"
    /\ Len(sched.given.items) = MaxOpts
    /\ sched.given.items[MaxOpts][1] = "q"

\* The same mapping with its items inserted in every other order
Reorderings(items) ==
    {[i \in DOMAIN items |-> items[p[i]]] : p \in Permutations(DOMAIN items)}

DirectivesOf(lines, names) ==
    {i \in DOMAIN lines : lines[i].kind = "directive" /\ lines[i].s \in names}

\* C11: get_formatted_options yields the same directive sequence for every
\* insertion order of the same user-options mapping.  The user option lines
\* are exactly the mapping's items, sorted by key; they stand after the
\* required option, the output/error directives and the optional job name
\* and before the array-range directive, which is the last line; the job
\* name directive is there exactly when a name is given; with user options
\* not requested no user option line is emitted.
C11_OptionOrderIndependent ==
    (ret.op = "get_formatted_options" /\ ret.raised = "none") =>
        LET lines == ret.val
            items == sched.options.items
            users == DirectivesOf(lines, Range(ALLOWED_USER_OPTS))
            fixed == DirectivesOf(lines, {"cwd", STDOUT_OPT, STDERR_OPT, "N"})
        IN /\ \A perm \in Reorderings(items) :
                 get_formatted_options([sched EXCEPT !.options = Dict(perm)], cgs.max_num_tasks,
                                       cgs.task_step_size, ret.user_opt, ret.name) = Ok(lines)
           /\ DirectivesOf(lines, {"t"}) = {Len(lines)}
           /\ DirectivesOf(lines, {"cwd"}) # {} /\ DirectivesOf(lines, {STDOUT_OPT}) # {}
           /\ DirectivesOf(lines, {STDERR_OPT}) # {}
           /\ (DirectivesOf(lines, {"N"}) # {}) = (ret.name # "")
           /\ \A u \in users : u < Len(lines) /\ \A f \in fixed : f < u
           /\ \A u, w \in users : u < w => StrRank(lines[u].s) < StrRank(lines[w].s)
           /\ ret.user_opt => /\ {<<lines[u].s, lines[u].v>> : u \in users} = Range(items)
                              /\ Cardinality(users) = Len(items)
           /\ ~ret.user_opt => users = {}

C11_Witness ==
    /\ ret.op = "get_formatted_options" /\ ret.raised = "none"
    /\ ret.user_opt /\ ret.name = "job"
    /\ Len(sched.options.items) = MaxOpts
    /\ StrRank(sched.options.items[1][1]) > StrRank(sched.options.items[2][1])
    /\ Cardinality(DirectivesOf(ret.val, Range(ALLOWED_USER_OPTS))) = MaxOpts

\* C14: the array-scheduler backend can be constructed with its options
\* omitted (the constructor's default, None): the construction succeeds and
\* yields the backend object, and get_formatted_options with user options
\* requested then returns only the required option, the output/error
\* directives, the optional job name and the array-range directive.
C14_DefaultOptionsConstruct ==
    /\ (ret.op = SGE_NAME /\ sched.given.isNone) =>
            (sched.raised = "none" /\ sched.cls = "sge")
    /\ (ret.op = "get_formatted_options" /\ sched.given.isNone /\ ret.user_opt) =>
            /\ ret.raised = "none"
            /\ DirectivesOf(ret.val, Range(ALLOWED_USER_OPTS)) = {}
            /\ DirectivesOf(ret.val, {"t"}) = {Len(ret.val)}

----------------------------------------------------------------------------
(* An array element running a generated script.  The interpreter is        *)
(* `/bin/bash --login` (SHEBANG) and no line of the script changes its      *)
(* error handling, so a line runs whatever the exit status of the line      *)
(* before it.                                                               *)

\* The scheduler (or, for a direct script, the invoking shell) starts the
\* script with SGE_TASK_ID = id in its environment; an unset TASK_IDX reads 0.
Launch(which, id) ==
    /\ proc.pc = 0
    /\ files[which] # <<>>
    /\ script' = files[which]
    /\ proc' = [pc |-> 1, SGE_TASK_ID |-> id, TASK_IDX |-> 0, failed |-> {}]
    /\ UNCHANGED <<schedVars, lifeVars, statsVars, apiVars>>

\* The staging commands are the ones whose exit status the model varies.
MayFail(ln) == ln.kind \in {"rsync-to-scratch", "rsync-from-scratch"}

\* Run the line at proc.pc with exit status rc, then go on to the next line.
ExecLine(rc) ==
    /\ proc.pc \in DOMAIN script
    /\ LET ln == script[proc.pc]
       IN /\ (rc # 0) => MayFail(ln)
          /\ proc' = [proc EXCEPT
                !.pc = @ + 1,
                !.SGE_TASK_ID = IF ln.kind = "define" /\ ln.s = "SGE_TASK_ID" THEN ln.a ELSE @,
                !.TASK_IDX = IF ln.kind = "define" /\ ln.s = "TASK_IDX"
                             THEN EvalTaskIdx(ln, proc.SGE_TASK_ID) ELSE @,
                !.failed = IF rc # 0 THEN @ \cup {proc.pc} ELSE @]
    /\ UNCHANGED script
    /\ UNCHANGED <<schedVars, lifeVars, statsVars, apiVars>>

\* End of script: the process exits.
Exit ==
    /\ proc.pc = Len(script) + 1
    /\ proc' = NoProc
    /\ script' = <<>>
    /\ UNCHANGED <<schedVars, lifeVars, statsVars, apiVars>>

InitRun ==
    /\ \E cls \in {"sge", "direct"} :
          sched = [(IF cls = "sge" THEN SGE_init(Dict(<<>>), "", "")
                    ELSE Direct_init(NoneVal, "", "")) EXCEPT !.given = Dict(<<>>)]
    /\ cgs \in CGS({MaxTasks}, 1..MaxStep, {<<>>, <<"module load x">>}, BOOLEAN,
                   {"", "/scratch"}, {"job"})
    /\ files = [js |-> write_jobscript(sched, cgs).val, st |-> write_stats_jobscript(sched, cgs).val]
    /\ ret = NoRet
    /\ IdleRun /\ IdleLife /\ IdleStats /\ IdleApi

NextRun ==
    \/ \E which \in {"js", "st"}, id \in 1..MaxId : Launch(which, id)
    \/ \E rc \in {0, 1} : ExecLine(rc)
    \/ Exit

SpecRun == InitRun /\ [][NextRun]_vars

\* Lines of the running script already executed
Done(kind) == {i \in 1..(proc.pc - 1) : i \in DOMAIN script /\ script[i].kind = kind}

TaskIdxLine(lines) == lines[CHOOSE i \in DOMAIN lines : lines[i].kind = "define" /\ lines[i].s = "TASK_IDX"]

\* q = floor(x / y), stated without division
IsFloorDiv(q, x, y) == q * y <= x /\ x < (q + 1) * y
\* c = ceil(x / y), stated without division
IsCeilDiv(c, x, y) == (c - 1) * y < x /\ x <= c * y

\* C2: the task index every generated script (job and stats script, both
\* backends) derives from the native array id is floor((native_id - 1) /
\* task_step_size); over native ids 1..N the mapping is monotonic
\* non-decreasing and its image is exactly 0 .. ceil(N/task_step_size)-1.
C2_TaskIndex ==
    /\ (proc.pc > 0 /\ Done("define") # {} /\ \E i \in Done("define") : script[i].s = "TASK_IDX") =>
          IsFloorDiv(proc.TASK_IDX, proc.SGE_TASK_ID - 1, cgs.task_step_size)
    /\ \A f \in {files.js, files.st} : f # <<>> =>
          LET idx(id) == EvalTaskIdx(TaskIdxLine(f), id)
          IN \A N \in 1..MaxId :
                /\ \A i, j \in 1..N : i <= j => idx(i) <= idx(j)
                /\ \E c \in 1..N : /\ IsCeilDiv(c, N, cgs.task_step_size)
                                   /\ {idx(i) : i \in 1..N} = 0..(c - 1)

C2_Witness ==
    /\ proc.pc = Len(script) + 1 /\ proc.pc > 1
    /\ proc.SGE_TASK_ID = MaxId /\ cgs.task_step_size = 2
    /\ IsFloorDiv(proc.TASK_IDX, MaxId - 1, 2)
    /\ sched.cls = "sge"

\* C9: a staging synchronization failure is task-fatal: after a failed
\* pre-stage sync the command file of the task is not executed, and after a
\* failed post-stage sync the archive callback of the task is not invoked.
C9_SyncFailureIsTaskFatal ==
    /\ \A i \in proc.failed : script[i].kind = "rsync-to-scratch" =>
            ~ \E j \in Done("source") : j > i
    /\ \A i \in proc.failed : script[i].kind = "rsync-from-scratch" =>
            ~ \E j \in Done("archive") : j > i

----------------------------------------------------------------------------
(* init_db and the API operations (api.py) *)

\* engine.connect(): raises when the database does not exist (docstring of
\* init_db: "If True, an exception is raised if the database does not exist")
EngineConnect(d) == IF d.exists THEN "none" ELSE "OperationalError"

\* base_db.Base.metadata.create_all(engine): creates the store and its tables
CreateAll(d) == [d EXCEPT !.exists = TRUE, !.schema = TRUE]

init_db(d, check_exists) ==
    IF check_exists /\ EngineConnect(d) # "none"
    THEN [raised |-> EngineConnect(d), db |-> d]
    ELSE [raised |-> "none", db |-> CreateAll(d)]

ApiIdle == UNCHANGED <<schedVars, runVars, statsVars>>

\* make_workflow(..., clean): more than one workflow source is rejected first;
\* Project(dir_path, clean=True) removes existing hpcflow data.
make_workflow(n_sources, clean) ==
    /\ Cardinality(db.workflows) < MaxWorkflows
    /\ IF n_sources > 1
       THEN /\ call' = [op |-> "make_workflow", existed |-> db.exists, raised |-> "ValueError", val |-> {}]
            /\ db' = db
       ELSE LET project == IF clean THEN NoDb ELSE db
                s == init_db(project, FALSE)
                id_ == Cardinality(s.db.workflows) + 1
            IN /\ db' = [s.db EXCEPT !.workflows = @ \cup {id_}]
               /\ call' = [op |-> "make_workflow", existed |-> db.exists, raised |-> "none", val |-> {id_}]
    /\ ApiIdle /\ UNCHANGED lifeVars

\* submit_workflow: `session.query(Workflow).get(workflow_id)` is None for an
\* unknown id, and None has no add_submission.
submit_workflow(workflow_id) ==
    /\ Cardinality(db.cg_subs) < MaxWorkflows
    /\ LET s == init_db(db, TRUE)
           id_ == Cardinality(s.db.cg_subs) + 1
       IN IF s.raised # "none"
          THEN /\ call' = [op |-> "submit_workflow", existed |-> db.exists, raised |-> s.raised, val |-> {}]
               /\ db' = s.db
          ELSE IF workflow_id \notin s.db.workflows
          THEN /\ call' = [op |-> "submit_workflow", existed |-> db.exists, raised |-> "AttributeError", val |-> {}]
               /\ db' = s.db
          ELSE /\ call' = [op |-> "submit_workflow", existed |-> db.exists, raised |-> "none", val |-> {id_}]
               /\ db' = [s.db EXCEPT !.cg_subs = @ \cup {id_}]
    /\ ApiIdle /\ UNCHANGED lifeVars

get_workflow_ids ==
    /\ LET s == init_db(db, TRUE)
       IN /\ call' = [op |-> "get_workflow_ids", existed |-> db.exists, raised |-> s.raised,
                      val |-> IF s.raised = "none" THEN s.db.workflows ELSE {}]
          /\ db' = s.db
    /\ ApiIdle /\ UNCHANGED lifeVars

\* clean: project.clean() removes everything hpcflow generated in the directory
clean ==
    /\ db' = NoDb
    /\ call' = [op |-> "clean", existed |-> db.exists, raised |-> "none", val |-> {}]
    /\ ApiIdle /\ UNCHANGED lifeVars

write_cmd(cmd_group_sub_id) ==
    /\ LET s == init_db(db, TRUE)
       IN /\ call' = [op |-> "write_cmd", existed |-> db.exists,
                      raised |-> IF s.raised # "none" THEN s.raised
                                 ELSE IF cmd_group_sub_id \notin s.db.cg_subs THEN "AttributeError"
                                 ELSE "none",
                      val |-> {}]
          /\ db' = s.db
    /\ ApiIdle /\ UNCHANGED lifeVars

----------------------------------------------------------------------------
(* Task lifecycle writes.  The callbacks `set-task-start`, `set-task-end`   *)
(* and CommandGroupSubmission.archive are not part of the sources at hand;  *)
(* they follow the design document (section 4.5).  api.archive is the       *)
(* entry point of the third.                                                *)

\* Mutant: a repeated start replaces the whole row.
MarkStart_reset(st, k, now) ==
    [raised |-> "none", store |-> [st EXCEPT ![k] = [NoRow EXCEPT !.exists = TRUE, !.start = now]]]

\* mark task start: upsert, latest start time wins
MarkStart(st, k, now) ==
    [raised |-> "none", store |-> [st EXCEPT ![k] = [@ EXCEPT !.exists = TRUE, !.start = now]]]

\* Mutant: the end time is written whether or not the task has started.
MarkEnd_unchecked(st, k, now) ==
    [raised |-> "none", store |-> [st EXCEPT ![k] = [@ EXCEPT !.end = now]]]

\* mark task end: requires the row to exist
MarkEnd(st, k, now) ==
    IF ~st[k].exists THEN [raised |-> "LifecycleError", store |-> st]
    ELSE [raised |-> "none", store |-> [st EXCEPT ![k] = [@ EXCEPT !.end = now]]]

\* mark archived (CommandGroupSubmission.archive): requires the end time
CgSubArchive(st, k) ==
    IF st[k].end = 0 THEN [raised |-> "LifecycleError", store |-> st]
    ELSE [raised |-> "none", store |-> [st EXCEPT ![k] = [@ EXCEPT !.archived = TRUE]]]

\* The store-side effect of api.archive: a missing store or an unknown
\* command-group submission raises before cg_sub.archive is reached, and
\* session.commit() is reached only when cg_sub.archive returned.
ArchiveCall(d, st, k) ==
    LET s == init_db(d, TRUE)
    IN IF s.raised # "none" THEN [raised |-> s.raised, db |-> s.db, store |-> st]
       ELSE IF k[1] \notin s.db.cg_subs THEN [raised |-> "AttributeError", db |-> s.db, store |-> st]
       ELSE LET a == CgSubArchive(st, k)
            IN [raised |-> a.raised, db |-> s.db, store |-> a.store]

Tick == clock' = clock + 1

set_task_start(k) ==
    /\ clock < MaxClock
    /\ LET r == MarkStart(store, k, clock)
       IN store' = r.store /\ last' = [op |-> "set-task-start", key |-> k, raised |-> r.raised]
    /\ Tick
    /\ UNCHANGED <<tasks, apiVars>> /\ ApiIdle

set_task_end(k) ==
    /\ clock < MaxClock
    /\ LET r == MarkEnd(store, k, clock)
       IN store' = r.store /\ last' = [op |-> "set-task-end", key |-> k, raised |-> r.raised]
    /\ Tick
    /\ UNCHANGED <<tasks, apiVars>> /\ ApiIdle

\* api.archive(cmd_group_sub_id, task); the iteration comes from the caller's
\* context (ITER_IDX)
archive(cmd_group_sub_id, task, iter) ==
    /\ clock < MaxClock
    /\ LET k == <<cmd_group_sub_id, task, iter>>
           r == ArchiveCall(db, store, k)
       IN /\ store' = r.store /\ db' = r.db
          /\ last' = [op |-> "archive", key |-> k, raised |-> r.raised]
          /\ call' = [op |-> "archive", existed |-> db.exists, raised |-> r.raised, val |-> {}]
    /\ Tick
    /\ UNCHANGED tasks /\ ApiIdle

\* A store holding one submitted command-group submission (id 1)
SubmittedDb == [exists |-> TRUE, schema |-> TRUE, workflows |-> {1}, cg_subs |-> {1}]

InitLife ==
    /\ IdleSched /\ IdleRun /\ IdleStats
    /\ store = [k \in LifeKeys |-> NoRow] /\ clock = 1 /\ last = NoLast /\ tasks = <<>>
    /\ db = SubmittedDb /\ call = NoCall

NextLife ==
    \/ \E k \in LifeKeys : set_task_start(k)
    \/ \E k \in LifeKeys : set_task_end(k)
    \/ \E k \in LifeKeys : archive(k[1], k[2], k[3])

SpecLife == InitLife /\ [][NextLife]_vars

InitApi ==
    /\ IdleSched /\ IdleRun /\ IdleStats /\ IdleLife /\ IdleApi

NextApi ==
    \/ \E n \in 0..2, c \in BOOLEAN : make_workflow(n, c)
    \/ \E w \in 1..MaxWorkflows : submit_workflow(w)
    \/ get_workflow_ids
    \/ clean
    \/ \E g \in 1..MaxWorkflows : write_cmd(g)
    \/ \E k \in LifeKeys : archive(k[1], k[2], k[3])

SpecApi == InitApi /\ [][NextApi]_vars

----------------------------------------------------------------------------
(* Claims about the lifecycle and the store *)

\* C6: a mark-end on a key with no start record fails and a mark-archived on
\* a key with no end timestamp fails, each leaving the store unchanged; in
\* every reachable state archive-completed implies end timestamp set, and end
\* timestamp set implies a start timestamp exists; mark-archived on a key
\* whose end is set succeeds and leaves all three fields set.
C6_LifecyclePreconditions ==
    /\ [](\A k \in LifeKeys : /\ store[k].archived => store[k].end # 0
                              /\ store[k].end # 0 => (store[k].exists /\ store[k].start # 0))
    /\ [][ LET k == last'.key
           IN /\ (last'.op = "set-task-end" /\ ~store[k].exists) =>
                    (last'.raised # "none" /\ store' = store)
              /\ (last'.op = "archive" /\ store[k].end = 0) =>
                    (last'.raised # "none" /\ store' = store)
              /\ (last'.op = "set-task-end" /\ store[k].exists) => last'.raised = "none"
              /\ (last'.op = "archive" /\ store[k].end # 0) =>
                    /\ last'.raised = "none"
                    /\ store'[k].start # 0 /\ store'[k].end # 0 /\ store'[k].archived ]_vars

C6_Witness ==
    /\ last.op = "archive" /\ last.raised = "none"
    /\ store[last.key].start # 0 /\ store[last.key].end # 0 /\ store[last.key].archived
    /\ \E k \in LifeKeys : ~store[k].exists

\* C8: a repeated mark-start on a key whose record has an end timestamp
\* replaces the start timestamp with the new one and leaves the end timestamp
\* and the archive-completed flag unchanged; no lifecycle operation deletes a
\* record or clears an end timestamp.
C8_RestartKeepsEnd ==
    [][ /\ (last'.op = "set-task-start" /\ clock' # clock /\ store[last'.key].end # 0) =>
              /\ store'[last'.key].start = clock
              /\ store'[last'.key].end = store[last'.key].end
              /\ store'[last'.key].archived = store[last'.key].archived
        /\ \A k \in LifeKeys : /\ store[k].exists => store'[k].exists
                               /\ store[k].end # 0 => store'[k].end = store[k].end \/ (last'.op = "set-task-end" /\ last'.key = k /\ store'[k].end # 0) ]_vars

C8_Witness ==
    /\ last.op = "set-task-start"
    /\ store[last.key].end # 0 /\ store[last.key].start > store[last.key].end
    /\ store[last.key].archived

\* C10: make_workflow and submit_workflow open the store without requiring it
\* to exist; get_workflow_ids, write_cmd and archive, invoked where no store
\* exists, fail before doing any work and create no store or schema.
C10_StoreExistencePolicy ==
    /\ (call.op \in {"make_workflow", "submit_workflow"} /\ ~call.existed) =>
            call.raised # "OperationalError"
    /\ (call.op \in {"get_workflow_ids", "write_cmd", "archive"} /\ ~call.existed) =>
            (call.raised = "OperationalError" /\ ~db.exists /\ ~db.schema)

----------------------------------------------------------------------------
(* SunGridEngine.get_scheduler_stats.  The accounting output is a sequence  *)
(* of text lines [k, v]: `k` the first whitespace-separated token, `v` the   *)
(* rest of the line ("" when the line holds one token only).                 *)

STATS_DELIM == [k |-> "==============================================================", v |-> ""]

\* str.split(STATS_DELIM): the delimiter is a whole line WITH its newline, so
\* a delimiter line that ends the (stripped) output separates nothing.
RECURSIVE SplitDelim(_, _, _)
SplitDelim(lines, i, cur) ==
    IF i > Len(lines) THEN <<cur>>
    ELSE IF lines[i] = STATS_DELIM /\ i < Len(lines)
         THEN <<cur>> \o SplitDelim(lines, i + 1, <<>>)
         ELSE SplitDelim(lines, i + 1, Append(cur, lines[i]))

\* info.update({key: val})
Update(mapping, key, val) == {p \in mapping : p[1] # key} \cup {<<key, val>>}

\* int(val): the decimal texts that occur; anything else raises ValueError
IsInt(val) == val \in {"3", "5"}
IntOf(val) == IF val = "3" THEN 3 ELSE 5

\* Mutant: only a numerically equal taskid matches.
TaskMatches_numeric_only(val, task_id) ==
    IF val = "undefined" THEN [raised |-> "none", keep |-> FALSE]
    ELSE IF ~IsInt(val) THEN [raised |-> "ValueError", keep |-> FALSE]
    ELSE [raised |-> "none", keep |-> IntOf(val) = task_id]

\* `val == 'undefined' or int(val) == task_id`
TaskMatches(val, task_id) ==
    IF val = "undefined" THEN [raised |-> "none", keep |-> TRUE]
    ELSE IF ~IsInt(val) THEN [raised |-> "ValueError", keep |-> FALSE]
    ELSE [raised |-> "none", keep |-> IntOf(val) = task_id]

\* The inner loop over the lines of one block, from line i on
RECURSIVE ScanLines(_, _, _, _, _)
ScanLines(block, i, mapping, keep, task_id) ==
    IF i > Len(block) THEN [raised |-> "none", val |-> mapping, keep |-> keep]
    ELSE LET ln == block[i]
         IN IF ln.v = ""
            THEN [raised |-> "ValueError", val |-> mapping, keep |-> keep]
            ELSE LET m == IF ln.k = "taskid" THEN TaskMatches(ln.v, task_id)
                          ELSE [raised |-> "none", keep |-> FALSE]
                 IN IF m.raised # "none"
                    THEN [raised |-> m.raised, val |-> Update(mapping, ln.k, ln.v), keep |-> keep]
                    ELSE ScanLines(block, i + 1, Update(mapping, ln.k, ln.v), keep \/ m.keep, task_id)

\* The outer loop over qacct[1:], from block i on
RECURSIVE ScanBlocks(_, _, _, _)
ScanBlocks(blocks, i, mapping, task_id) ==
    IF i > Len(blocks) THEN [raised |-> "none", val |-> mapping]
    ELSE LET r == ScanLines(blocks[i], 1, mapping, FALSE, task_id)
         IN IF r.raised # "none" THEN [raised |-> r.raised, val |-> {}]
            ELSE IF r.keep THEN [raised |-> "none", val |-> r.val]
            ELSE ScanBlocks(blocks, i + 1, {}, task_id)

get_scheduler_stats(out, task_id) ==
    LET segs == SplitDelim(out, 1, <<>>)
    IN ScanBlocks(Tail(segs), 1, {}, task_id)

StatLines == {STATS_DELIM, [k |-> "taskid", v |-> "undefined"], [k |-> "taskid", v |-> "3"],
              [k |-> "qname", v |-> "all.q"], [k |-> "jobname", v |-> "js_0"],
              [k |-> "owner", v |-> ""]}

RECURSIVE LineSeqs(_)
LineSeqs(n) ==
    IF n = 0 THEN {<<>>}
    ELSE LET shorter == LineSeqs(n - 1)
         IN shorter \cup {Append(s, l) : s \in {x \in shorter : Len(x) = n - 1}, l \in StatLines}

InitStats ==
    /\ IdleSched /\ IdleRun /\ IdleLife /\ IdleApi
    /\ qacct \in [out : LineSeqs(MaxLines), task_id : {3, 5}]
    /\ info = NoInfo

GetSchedulerStats ==
    /\ ~info.called
    /\ LET r == get_scheduler_stats(qacct.out, qacct.task_id)
       IN info' = [called |-> TRUE, raised |-> r.raised, val |-> r.val]
    /\ UNCHANGED qacct
    /\ UNCHANGED <<schedVars, runVars, lifeVars, apiVars>>

NextStats == GetSchedulerStats

SpecStats == InitStats /\ [][NextStats]_vars

\* The key/value mapping of a block of well-formed lines (a later line wins)
BlockMapping(block) ==
    {<<block[i].k, block[i].v>> : i \in {j \in DOMAIN block :
            \A h \in DOMAIN block : h > j => block[h].k # block[j].k}}

TaskIds(block) == {block[i].v : i \in {j \in DOMAIN block : block[j].k = "taskid"}}

\* The accounting output of the scenario: a header segment, then one block
\* with `taskid undefined`, then one block with `taskid 3`
UndefinedThenThree(out) ==
    LET segs == SplitDelim(out, 1, <<>>)
    IN /\ Len(segs) = 3
       /\ \A b \in {2, 3} : \A i \in DOMAIN segs[b] : segs[b][i].v # "" /\ segs[b][i] # STATS_DELIM
       /\ TaskIds(segs[2]) = {"undefined"}
       /\ TaskIds(segs[3]) = {"3"}

\* C4 as claimed: in that scenario, requesting task index 3 returns the
\* second block's mapping and requesting task index 5 returns an empty mapping.
C4_Original ==
    (info.called /\ UndefinedThenThree(qacct.out)) =>
        /\ info.raised = "none"
        /\ qacct.task_id = 3 => info.val = BlockMapping(SplitDelim(qacct.out, 1, <<>>)[3])
        /\ qacct.task_id = 5 => info.val = {}

\* C4 (amended): in that scenario the block with `taskid undefined` comes
\* first and matches every request, so requesting task index 3 and requesting
\* task index 5 both return the first block's mapping.
C4_UndefinedBlockWins ==
    (info.called /\ UndefinedThenThree(qacct.out)) =>
        /\ info.raised = "none"
        /\ info.val = BlockMapping(SplitDelim(qacct.out, 1, <<>>)[2])
        /\ <<"taskid", "undefined">> \in info.val

C4_Witness ==
    /\ info.called /\ UndefinedThenThree(qacct.out)
    /\ qacct.task_id = 3
    /\ <<"taskid", "undefined">> \in info.val
    /\ Len(qacct.out) = MaxLines

\* A block matches a request when one of its lines is `taskid undefined` or
\* a taskid numerically equal to the requested index
BlockMatches(block, task_id) ==
    \E i \in DOMAIN block :
        /\ block[i].k = "taskid"
        /\ block[i].v = "undefined" \/ (IsInt(block[i].v) /\ IntOf(block[i].v) = task_id)

\* C12: for any accounting output and requested task index,
\* get_scheduler_stats returns without an error, and what it returns is the
\* key/value mapping of the first block after the header segment that has a
\* taskid of `undefined` or numerically equal to the requested index (so no
\* key of the header or of an earlier block is in it, later blocks are not
\* consulted, a block without a taskid never matches), or the empty mapping
\* when the output is empty or no block matches.
C12_FirstMatchingBlock ==
    info.called =>
        LET blocks == Tail(SplitDelim(qacct.out, 1, <<>>))
            ms == {i \in DOMAIN blocks : BlockMatches(blocks[i], qacct.task_id)}
        IN /\ info.raised = "none"
           /\ info.val = IF ms = {} THEN {}
                         ELSE BlockMapping(blocks[CHOOSE i \in ms : \A j \in ms : i <= j])

----------------------------------------------------------------------------
(* Array elements of one job running their lifecycle callbacks concurrently. *)
(* Each callback is one `hpcflow ...` process and one store transaction.     *)

IsLifecycle(ln) == ln.kind \in {"set-task-start", "set-task-end", "archive"}
Callbacks(lines) == SelectSeq(lines, IsLifecycle)

\* TASK_IDX as the preamble of the script derives it for native id `id`
PreambleTaskIdx(lines, id) ==
    LET fixed == {i \in DOMAIN lines : lines[i].kind = "define" /\ lines[i].s = "SGE_TASK_ID"}
        sge_task_id == IF fixed = {} THEN id ELSE lines[CHOOSE i \in fixed : TRUE].a
    IN EvalTaskIdx(TaskIdxLine(lines), sge_task_id)

\* The elements the job consists of: those of the array directive, or the
\* single run of a direct-execution script
Elements(lines) ==
    LET t == {i \in DOMAIN lines : lines[i].kind = "directive" /\ lines[i].s = "t"}
    IN IF t = {} THEN {ArrayLo} ELSE ArrayIds(lines[CHOOSE i \in t : TRUE])

\* ITER_IDX of the run
IterIdx == 0

KeyOf(id) == <<Callbacks(files.js)[1].a, PreambleTaskIdx(files.js, id), IterIdx>>

RunCallback(id) ==
    /\ tasks[id].pc \in DOMAIN Callbacks(files.js)
    /\ LET ln == Callbacks(files.js)[tasks[id].pc]
           k == <<ln.a, PreambleTaskIdx(files.js, id), IterIdx>>
           r == IF ln.kind = "set-task-start" THEN MarkStart(store, k, clock)
                ELSE IF ln.kind = "set-task-end" THEN MarkEnd(store, k, clock)
                ELSE [raised |-> ArchiveCall(db, store, k).raised,
                      store |-> ArchiveCall(db, store, k).store]
           ok == r.raised = "none"
       IN /\ store' = r.store
          /\ last' = [op |-> ln.kind, key |-> k, raised |-> r.raised]
          /\ tasks' = [tasks EXCEPT ![id] = [@ EXCEPT
                !.pc = @ + 1,
                !.err = @ \/ ~ok,
                !.start = IF ok /\ ln.kind = "set-task-start" THEN clock ELSE @,
                !.end = IF ok /\ ln.kind = "set-task-end" THEN clock ELSE @,
                !.archived = IF ok /\ ln.kind = "archive" THEN TRUE ELSE @]]
    /\ Tick
    /\ UNCHANGED <<schedVars, runVars, statsVars, apiVars>>

InitConc ==
    /\ \E cls \in {"sge", "direct"} :
          sched = [(IF cls = "sge" THEN SGE_init(Dict(<<>>), "", "")
                    ELSE Direct_init(NoneVal, "", "")) EXCEPT !.given = Dict(<<>>)]
    /\ cgs \in CGS(1..MaxTasks, 1..MaxStep, {<<>>}, BOOLEAN, {"", "/scratch"}, {"job"})
    /\ files = [js |-> write_jobscript(sched, cgs).val, st |-> <<>>]
    /\ ret = NoRet
    /\ IdleRun /\ IdleStats
    /\ store = [k \in LifeKeys |-> NoRow] /\ clock = 1 /\ last = NoLast
    /\ tasks = [id \in Elements(files.js) |-> [NoTask EXCEPT !.pc = 1]]
    /\ db = SubmittedDb /\ call = NoCall

NextConc == \E id \in DOMAIN tasks : RunCallback(id)

SpecConc == InitConc /\ [][NextConc]_vars

----------------------------------------------------------------------------
(* The job scripts of the two backends, compared *)

IsStep(ln) == ln.kind \notin {"blank", "directive"}
IsCallback(ln) == ln.kind \in {"write-runtime-files", "set-task-start", "set-task-end", "archive"}

\* What a callback line passes: the directory root and the config location
\* (under whichever flag, "" when the line passes none), the
\* command-group-submission id, $TASK_IDX and $ITER_IDX
DirectoryRoot(ln) == IF ln.s \in {SGE_LOC_ARGS, D_LOC_ARGS} THEN "$ROOT_DIR" ELSE ""
ConfigLocation(ln) == IF ln.s = SGE_LOC_ARGS THEN CONFIG.config_dir ELSE ""
IdArgs(ln) ==
    [kind |-> ln.kind, directory |-> DirectoryRoot(ln), config_dir |-> ConfigLocation(ln),
     id |-> ln.a, task |-> "$TASK_IDX", iter |-> "$ITER_IDX"]

\* A line with the flags of a callback left out
Shape(ln) == IF IsCallback(ln) THEN [ln EXCEPT !.s = ""] ELSE ln

Without(lines, k) == [i \in 1..(Len(lines) - 1) |-> IF i < k THEN lines[i] ELSE lines[i + 1]]

\* C13: for the same inputs the direct-execution job script is the
\* array-scheduler job script with the directives removed and the
\* assignment SGE_TASK_ID=1 placed before every other variable definition:
\* the remaining steps are the same in content and order, every callback
\* (write-runtime-files, set-task-start, set-task-end, archive) passes the
\* same directory root, config location, command-group-submission id, task
\* index and iteration index, and the TASK_IDX the direct script derives is 0.
C13_BackendAgnosticShape ==
    (sched.cls = "direct" /\ files.js # <<>>) =>
        LET sge == SGE_write_jobscript([sched EXCEPT !.cls = "sge"], cgs)
            array == SelectSeq(sge.val, IsStep)
            direct == SelectSeq(files.js, IsStep)
            fixed == {i \in DOMAIN direct : direct[i].kind = "define" /\ direct[i].s = "SGE_TASK_ID"}
        IN /\ sge.raised = "none"
           /\ Cardinality(fixed) = 1
           /\ \A k \in fixed :
                 /\ direct[k].a = ArrayLo
                 /\ \A i \in Positions(direct, "define") : k <= i
                 /\ Len(direct) = Len(array) + 1
                 /\ \A i \in DOMAIN array : Shape(Without(direct, k)[i]) = Shape(array[i])
           /\ [i \in DOMAIN SelectSeq(direct, IsCallback) |-> IdArgs(SelectSeq(direct, IsCallback)[i])]
                 = [i \in DOMAIN SelectSeq(array, IsCallback) |-> IdArgs(SelectSeq(array, IsCallback)[i])]
           /\ PreambleTaskIdx(files.js, ArrayLo) = 0

====
